---- MODULE Spec2Model ----
(***************************************************************************)
(* Model of tubesrestaurant.py, the Houston Restaurant Explorer dashboard. *)
(* One behaviour is a browser session: the script runs top to bottom       *)
(* (load_data, sidebar widgets, filter mask, map, KPI metrics), the user   *)
(* changes a widget, the script runs again.  Numbers are fixed point:      *)
(* ratings and minutes in tenths (the rating slider's step), coordinates   *)
(* in hundredths of a degree.  Texts are sequences of one-character        *)
(* strings.                                                                *)
(***************************************************************************)
EXTENDS Integers, Sequences, FiniteSets

VARIABLES
    csv,        \* restaurants.csv on disk: absent, or its parsed rows
    cache,      \* st.cache_data's entry for load_data: <<>> or <<table>>
    session,    \* the widget values the user has set
    pc,         \* where the running script is: start, loaded, widgets,
                \* filtered, mapped, done, error
    steps,      \* the steps this run has entered, in order
    data,       \* the normalized table of this run
    ui,         \* <<>> or <<the sidebar's options and returned values>>
    filtered,   \* data[mask]
    mapCenter,  \* <<>> or <<the view state's latitude and longitude>>
    kpi,        \* the metrics displayed so far, k1 to k4
    errors      \* the st.error messages displayed in this run

vars == <<csv, cache, session, pc, steps, data, ui, filtered, mapCenter, kpi, errors>>

(* ------------------------------ bounds --------------------------------- *)
MaxRows == 2
MaxTouched == 2

(* --------------------------- program constants ------------------------- *)
Scale == 10
SliderMaxRating == 50
DefaultLatitude == 2976
DefaultLongitude == 0 - 9536

(* ------------------------------- cells --------------------------------- *)
\* A cell of a numeric column: a number, NaN, -inf, or text that is no number.
Num(v) == [k |-> "num", v |-> v]
NaN == [k |-> "nan", v |-> 0]
NegInf == [k |-> "-inf", v |-> 0]
Text == [k |-> "text", v |-> 0]

\* A cell of a categorical column is a string; NA is the missing value.
NA == "NaN"

\* A cell of the name column: a text or missing.
Str(s) == [k |-> "str", s |-> s]
NaName == [k |-> "nan", s |-> <<>>]

(* ------------------------------ helpers -------------------------------- *)
Range(s) == {s[i] : i \in 1..Len(s)}

Abs(n) == IF n < 0 THEN 0 - n ELSE n

RECURSIVE GCD(_, _)
GCD(a, b) == IF b = 0 THEN a ELSE GCD(b, a % b)

RECURSIVE SumSeq(_)
SumSeq(s) == IF s = <<>> THEN 0 ELSE Head(s) + SumSeq(Tail(s))

RECURSIVE MaxOf(_)
MaxOf(S) ==
    LET x == CHOOSE y \in S : TRUE
    IN  IF S = {x} THEN x
        ELSE LET m == MaxOf(S \ {x}) IN IF x > m THEN x ELSE m

\* The elements of a set of integers as an increasing sequence.
RECURSIVE Ascending(_)
Ascending(S) ==
    IF S = {} THEN <<>>
    ELSE LET m == MaxOf(S) IN Append(Ascending(S \ {m}), m)

\* The rows of a table that a boolean vector selects: data[mask].
RECURSIVE Select(_, _)
Select(rows, mask) ==
    IF rows = <<>> THEN <<>>
    ELSE LET rest == Select(Tail(rows), Tail(mask))
         IN  IF Head(mask) THEN <<Head(rows)>> \o rest ELSE rest

\* One column of a table, as a sequence of cells.
Column(rows, col) == [i \in 1..Len(rows) |-> rows[i][col]]

(* --------------------------- the source file --------------------------- *)
\* The rows restaurants.csv may hold, as read_csv parses them.
SourceRows == <<
    [name |-> Str(<<"A", "b">>), latitude |-> Num(2970), longitude |-> Num(0 - 9530),
     averageRating |-> Num(40), priceRange |-> "$",
     asapPickupAvailable |-> "True", asapDeliveryAvailable |-> "True",
     asapDeliveryTimeMinutes |-> Num(20), asapPickupMinutes |-> Num(10)],
    [name |-> Str(<<"b", "a", "r">>), latitude |-> Num(2980), longitude |-> Num(0 - 9541),
     averageRating |-> Num(48), priceRange |-> "$$$$",
     asapPickupAvailable |-> "False", asapDeliveryAvailable |-> "True",
     asapDeliveryTimeMinutes |-> Num(25), asapPickupMinutes |-> Num(5)],
    [name |-> Str(<<"A", "b">>), latitude |-> NaN, longitude |-> Num(0 - 9530),
     averageRating |-> Num(40), priceRange |-> "$",
     asapPickupAvailable |-> "True", asapDeliveryAvailable |-> "True",
     asapDeliveryTimeMinutes |-> Num(10), asapPickupMinutes |-> Num(10)],
    [name |-> Str(<<"b", "a", "r">>), latitude |-> Num(2980), longitude |-> NaN,
     averageRating |-> Text, priceRange |-> "$$",
     asapPickupAvailable |-> "True", asapDeliveryAvailable |-> "False",
     asapDeliveryTimeMinutes |-> Num(10), asapPickupMinutes |-> Num(10)],
    [name |-> Str(<<"r", "A">>), latitude |-> Num(2975), longitude |-> Num(0 - 9536),
     averageRating |-> Text, priceRange |-> "$$",
     asapPickupAvailable |-> "True", asapDeliveryAvailable |-> "False",
     asapDeliveryTimeMinutes |-> Num(10), asapPickupMinutes |-> Num(10)],
    [name |-> Str(<<"b">>), latitude |-> Num(2976), longitude |-> Num(0 - 9536),
     averageRating |-> Num(35), priceRange |-> "$$$",
     asapPickupAvailable |-> "True", asapDeliveryAvailable |-> "True",
     asapDeliveryTimeMinutes |-> NegInf, asapPickupMinutes |-> Num(10)],
    [name |-> Str(<<"a">>), latitude |-> Num(2971), longitude |-> Num(0 - 9533),
     averageRating |-> Num(45), priceRange |-> "?",
     asapPickupAvailable |-> NA, asapDeliveryAvailable |-> NA,
     asapDeliveryTimeMinutes |-> Num(10), asapPickupMinutes |-> Num(0)],
    [name |-> NaName, latitude |-> Num(2973), longitude |-> Num(0 - 9535),
     averageRating |-> Num(30), priceRange |-> "$",
     asapPickupAvailable |-> "False", asapDeliveryAvailable |-> "False",
     asapDeliveryTimeMinutes |-> Num(10), asapPickupMinutes |-> Num(10)],
    [name |-> Str(<<"a", "B">>), latitude |-> Num(2972), longitude |-> Num(0 - 9534),
     averageRating |-> Num(50), priceRange |-> "$$",
     asapPickupAvailable |-> "True", asapDeliveryAvailable |-> "True",
     asapDeliveryTimeMinutes |-> Text, asapPickupMinutes |-> NaN]
>>

\* A source file: absent from disk, or up to MaxRows of the rows above in order.
NoFile == [exists |-> FALSE, rows |-> <<>>]

SourceFiles ==
    {NoFile} \cup
    { [exists |-> TRUE, rows |-> [i \in 1..Len(ix) |-> SourceRows[ix[i]]]] :
        ix \in { Ascending(S) : S \in { T \in SUBSET (1..Len(SourceRows)) :
                                          Cardinality(T) <= MaxRows } } }

(* ------------------------------ load_data ------------------------------ *)
\* df["priceRange"].map(price_mapping): a symbol outside the mapping gives NaN.
price_mapping(p) ==
    CASE p = "$" -> "Budget"
      [] p = "$$" -> "Mid-range"
      [] p = "$$$" -> "Expensive"
      [] p = "$$$$" -> "Luxury"
      [] OTHER -> NA

\* df[...].map(bool_mapping): an empty cell, being neither True nor False, gives NaN.
bool_mapping(b) ==
    CASE b = "True" -> "Yes"
      [] b = "False" -> "No"
      [] OTHER -> NA

\* pd.to_numeric(..., errors="coerce"): what is no number becomes NaN.
to_numeric(c) == IF c.k = "text" THEN NaN ELSE c

\* Mutant of HasCoordinates: dropna(how="all"), a row goes only when both are missing.
HasAnyCoordinate(r) == r.latitude.k # "nan" \/ r.longitude.k # "nan"

\* df.dropna(subset=["latitude", "longitude"]) keeps the rows with both present.
HasCoordinates(r) == r.latitude.k # "nan" /\ r.longitude.k # "nan"

dropna(rows) == Select(rows, [i \in 1..Len(rows) |-> HasCoordinates(rows[i])])

\* The two .map calls and the three to_numeric calls, on one row.
NormalizeRow(r) ==
    [name |-> r.name, latitude |-> r.latitude, longitude |-> r.longitude,
     averageRating |-> to_numeric(r.averageRating),
     priceRange |-> price_mapping(r.priceRange),
     asapPickupAvailable |-> bool_mapping(r.asapPickupAvailable),
     asapDeliveryAvailable |-> bool_mapping(r.asapDeliveryAvailable),
     asapDeliveryTimeMinutes |-> to_numeric(r.asapDeliveryTimeMinutes),
     asapPickupMinutes |-> to_numeric(r.asapPickupMinutes)]

\* The body of load_data on a file that exists.
load_data(rows) ==
    LET kept == dropna(rows)
    IN  [i \in 1..Len(kept) |-> NormalizeRow(kept[i])]

(* ------------------------------- numbers ------------------------------- *)
\* Mutant of Le: the comparison written as "not above", which NaN passes.
LeNotAbove(c, bound) == ~(c.k = "num" /\ c.v > bound)

\* x <= bound on a column cell: NaN compares False, -inf is below every bound.
Le(c, bound) == (c.k = "num" /\ c.v <= bound) \/ c.k = "-inf"

\* Series.max(): NaN cells are skipped; NaN when nothing is left.
ColMax(cells) ==
    LET nums == {cells[i].v : i \in {j \in 1..Len(cells) : cells[j].k = "num"}}
    IN  IF nums # {} THEN Num(MaxOf(nums))
        ELSE IF \E i \in 1..Len(cells) : cells[i].k = "-inf" THEN NegInf
        ELSE NaN

\* Series.mean(): NaN cells are skipped; the result is an exact fraction n/d of
\* the column's unit, NaN when nothing is left, -inf when a cell is -inf.
Fraction(n, d) ==
    LET g == GCD(Abs(n), d) IN [k |-> "num", n |-> n \div g, d |-> d \div g]

ColMean(cells) ==
    LET present == {i \in 1..Len(cells) : cells[i].k = "num"}
        nums == [j \in 1..Cardinality(present) |-> cells[Ascending(present)[j]].v]
    IN  IF \E i \in 1..Len(cells) : cells[i].k = "-inf" THEN [k |-> "-inf", n |-> 0, d |-> 1]
        ELSE IF present = {} THEN [k |-> "nan", n |-> 0, d |-> 1]
        ELSE Fraction(SumSeq(nums), Cardinality(present))

\* int(x) of a float: defined on finite values only (truncation toward zero);
\* int(nan) raises ValueError and int(-inf) raises OverflowError.
IntRaises(m) ==
    CASE m.k = "nan" -> "ValueError"
      [] m.k = "-inf" -> "OverflowError"
      [] OTHER -> "none"

\* int() of a column cell holding tenths, and of a mean of tenths.
IntOfCell(c) == IF c.v >= 0 THEN c.v \div Scale ELSE 0 - ((0 - c.v) \div Scale)

IntOfMean(m) ==
    IF m.n >= 0 THEN m.n \div (m.d * Scale) ELSE 0 - ((0 - m.n) \div (m.d * Scale))

\* f"{x:.2f}" of a mean of tenths: hundredths, rounded to nearest, ties to even.
Format2f(m) ==
    CASE m.k = "nan" -> [k |-> "nan", v |-> 0]
      [] m.k = "-inf" -> [k |-> "-inf", v |-> 0]
      [] OTHER ->
            LET q == (m.n * Scale) \div m.d
                r == (m.n * Scale) % m.d
            IN  [k |-> "fmt", v |-> IF 2 * r > m.d \/ (2 * r = m.d /\ q % 2 = 1)
                                     THEN q + 1 ELSE q]

(* -------------------------------- texts -------------------------------- *)
\* The texts a user types in the search box; <<>> is the empty box.
Queries ==
    {<<>>, <<" ">>, <<"a">>, <<"B">>, <<".">>, <<"(">>,
     <<"a", "B">>, <<"B", "a">>, <<" ", "a">>}

\* Case folding of one character.
Lower(c) ==
    CASE c = "A" -> "a"
      [] c = "B" -> "b"
      [] OTHER -> c

\* str.strip(): leading and trailing blanks removed.
RECURSIVE LStrip(_)
LStrip(t) == IF t # <<>> /\ Head(t) = " " THEN LStrip(Tail(t)) ELSE t

RECURSIVE RStrip(_)
RStrip(t) ==
    IF t # <<>> /\ t[Len(t)] = " " THEN RStrip(SubSeq(t, 1, Len(t) - 1)) ELSE t

strip(t) == RStrip(LStrip(t))

\* Series.astype(str) on the name column.  A missing name becomes the text
\* "nan" with pandas before 3.0 and stays missing from 3.0 on; the repository
\* pins no version, so keepsNA is the installation's choice.
astype_str(nameCell, keepsNA) ==
    IF nameCell.k = "nan" /\ ~keepsNA THEN Str(<<"n", "a", "n">>) ELSE nameCell

\* re.compile(pat): over the characters of Queries a pattern is malformed exactly when it
\* holds "(", which nothing can close ("missing ), unterminated subpattern").
CompileRaises(pat) == "(" \in Range(pat)

\* One pattern character against one text character under re.IGNORECASE:
\* "." matches any character, everything else matches itself.
CharMatches(p, c) == p = "." \/ Lower(p) = Lower(c)

\* re.search(pat, text, re.IGNORECASE) for a well-formed pattern.
Search(pat, text) ==
    \E i \in 0..(Len(text) - Len(pat)) :
        \A j \in 1..Len(pat) : CharMatches(pat[j], text[i + j])

\* Series.str.contains(pat, case=False, na=False) on one cell (regex=True is
\* the default): a missing cell gives na, that is False.
str_contains(cell, pat) == cell.k = "str" /\ Search(pat, cell.s)


(* ------------------------------- sidebar ------------------------------- *)
price_order == <<"Budget", "Mid-range", "Expensive", "Luxury">>

\* [p for p in price_order if p in data["priceRange"].dropna().unique()]
available_prices(rows) ==
    {p \in Range(price_order) : \E i \in 1..Len(rows) : rows[i].priceRange = p}

\* The values the rating slider (0.0 to 5.0 in steps of 0.1) is moved to.
RatingStops == {30, 45, SliderMaxRating}

Requirements == {"All", "Yes", "No"}

\* What the user has set each widget to, kept where it differs from the
\* widget's default; <<>> for a widget that returns its default.
NoSession ==
    [search_query |-> <<>>, selected_price |-> <<>>, max_rating |-> <<>>,
     selected_del_time |-> <<>>, selected_pick_time |-> <<>>,
     selected_pickup |-> <<>>, selected_delivery |-> <<>>]

Widget(set, default) == IF set = <<>> THEN default ELSE set[1]

Touched(ses) ==
    Cardinality({w \in DOMAIN ses : ses[w] # <<>>})

\* Mutant of SliderMax: the maximum rounded up instead of truncated.
SliderMaxCeil(cells) ==
    LET m == ColMax(cells)
    IN  IF m.k = "nan" THEN 0 ELSE (m.v + Scale - 1) \div Scale

\* max_del_time / max_pick_time: int(max) when the maximum is not NaN, else 0.
SliderMax(cells) ==
    LET m == ColMax(cells) IN IF m.k = "nan" THEN 0 ELSE IntOfCell(m)

SliderMaxRaises(cells) == IntRaises(ColMax(cells)) = "OverflowError"

\* The sidebar block: every widget's options and returned value.
Widgets(rows, ses) ==
    LET prices == available_prices(rows)
        max_del_time == SliderMax(Column(rows, "asapDeliveryTimeMinutes"))
        max_pick_time == SliderMax(Column(rows, "asapPickupMinutes"))
    IN  [search_query |-> Widget(ses.search_query, <<>>),
         available_prices |-> prices,
         selected_price |-> Widget(ses.selected_price, prices),
         max_rating |-> Widget(ses.max_rating, SliderMaxRating),
         max_del_time |-> max_del_time,
         selected_del_time |-> Widget(ses.selected_del_time, max_del_time),
         max_pick_time |-> max_pick_time,
         selected_pick_time |-> Widget(ses.selected_pick_time, max_pick_time),
         selected_pickup |-> Widget(ses.selected_pickup, "All"),
         selected_delivery |-> Widget(ses.selected_delivery, "All")]

\* The value each widget returns when the user has not set it.
Defaults(w) ==
    [search_query |-> <<>>,
     selected_price |-> w.available_prices,
     max_rating |-> SliderMaxRating,
     selected_del_time |-> w.max_del_time,
     selected_pick_time |-> w.max_pick_time,
     selected_pickup |-> "All",
     selected_delivery |-> "All"]

(* ------------------------------- filter -------------------------------- *)
\* Mutant of isin: an empty selection read as "no price filter".
isinOrUnfiltered(c, values) == values = {} \/ (c # NA /\ c \in values)

\* Series.isin(values): a missing cell is in no list.
isin(c, values) == c # NA /\ c \in values

\* The four clauses every run applies.
BaseMask(rows, w) ==
    [i \in 1..Len(rows) |->
        /\ Le(rows[i].averageRating, w.max_rating)
        /\ isin(rows[i].priceRange, w.selected_price)
        /\ Le(rows[i].asapDeliveryTimeMinutes, w.selected_del_time * Scale)
        /\ Le(rows[i].asapPickupMinutes, w.selected_pick_time * Scale)]

PickupMask(rows, w, mask) ==
    IF w.selected_pickup # "All"
    THEN [i \in 1..Len(rows) |-> mask[i] /\ rows[i].asapPickupAvailable = w.selected_pickup]
    ELSE mask

DeliveryMask(rows, w, mask) ==
    IF w.selected_delivery # "All"
    THEN [i \in 1..Len(rows) |-> mask[i] /\ rows[i].asapDeliveryAvailable = w.selected_delivery]
    ELSE mask

NameMask(rows, w, mask, keepsNA) ==
    IF strip(w.search_query) # <<>>
    THEN [i \in 1..Len(rows) |->
            mask[i] /\ str_contains(astype_str(rows[i].name, keepsNA), w.search_query)]
    ELSE mask

Mask(rows, w, keepsNA) ==
    NameMask(rows, w, DeliveryMask(rows, w, PickupMask(rows, w, BaseMask(rows, w))), keepsNA)

\* The name clause compiles the query only when it is applied.
FilterRaises(w) == strip(w.search_query) # <<>> /\ CompileRaises(w.search_query)

(* --------------------------- map and metrics --------------------------- *)
\* Mutant of ViewState: the means taken without the fallback on no rows.
ViewStateNoFallback(rows) ==
    [latitude |-> ColMean(Column(rows, "latitude")),
     longitude |-> ColMean(Column(rows, "longitude"))]

\* initial_view_state: the mean coordinates, or the fixed centre on no rows.
ViewState(rows) ==
    [latitude |-> IF rows # <<>> THEN ColMean(Column(rows, "latitude"))
                  ELSE Fraction(DefaultLatitude, 1),
     longitude |-> IF rows # <<>> THEN ColMean(Column(rows, "longitude"))
                   ELSE Fraction(DefaultLongitude, 1)]

NoData == [k |-> "0", v |-> 0]

\* k1: the row count.
RestaurantsFound(rows) == [k |-> "count", v |-> Len(rows)]

\* k2: the mean rating to two decimals, or "0".
AverageRating(rows) ==
    IF rows # <<>> THEN Format2f(ColMean(Column(rows, "averageRating"))) ELSE NoData

\* k3 and k4: the whole minutes of a mean, or "0"; int() may raise.
MinutesRaises(rows, col) ==
    IF rows # <<>> THEN IntRaises(ColMean(Column(rows, col))) ELSE "none"

Minutes(rows, col) ==
    IF rows # <<>> THEN [k |-> "min", v |-> IntOfMean(ColMean(Column(rows, col)))]
    ELSE NoData

(* ------------------------------- actions ------------------------------- *)
Init ==
    /\ csv \in SourceFiles
    /\ cache = <<>>
    /\ session = NoSession
    /\ pc = "start"
    /\ steps = <<>>
    /\ data = <<>>
    /\ ui = <<>>
    /\ filtered = <<>>
    /\ mapCenter = <<>>
    /\ kpi = <<>>
    /\ errors = <<>>

\* Mutant of Raise: the handler swallows the exception and shows nothing.
RaiseSilently(step, e) ==
    /\ pc' = "error"
    /\ steps' = Append(steps, step)
    /\ errors' = errors

\* except Exception as e: st.error(...).  The script ends after the handler.
Raise(step, e) ==
    /\ pc' = "error"
    /\ steps' = Append(steps, step)
    /\ errors' = Append(errors, e)

\* data = load_data() under st.cache_data: a stored result is returned as is,
\* a raised exception is stored nowhere.
Load ==
    /\ pc = "start"
    /\ IF cache # <<>>
       THEN /\ data' = cache[1]
            /\ pc' = "loaded"
            /\ steps' = Append(steps, "load")
            /\ UNCHANGED <<cache, errors>>
       ELSE IF ~csv.exists
       THEN /\ Raise("load", "FileNotFoundError")
            /\ UNCHANGED <<cache, data>>
       ELSE /\ data' = load_data(csv.rows)
            /\ cache' = <<load_data(csv.rows)>>
            /\ pc' = "loaded"
            /\ steps' = Append(steps, "load")
            /\ UNCHANGED errors
    /\ UNCHANGED <<csv, session, ui, filtered, mapCenter, kpi>>

Sidebar ==
    /\ pc = "loaded"
    /\ IF \/ SliderMaxRaises(Column(data, "asapDeliveryTimeMinutes"))
          \/ SliderMaxRaises(Column(data, "asapPickupMinutes"))
       THEN /\ Raise("sidebar", "OverflowError")
            /\ UNCHANGED ui
       ELSE /\ ui' = <<Widgets(data, session)>>
            /\ pc' = "widgets"
            /\ steps' = Append(steps, "sidebar")
            /\ UNCHANGED errors
    /\ UNCHANGED <<csv, cache, session, data, filtered, mapCenter, kpi>>

Filter ==
    /\ pc = "widgets"
    /\ IF FilterRaises(ui[1])
       THEN /\ Raise("filter", "re.error")
            /\ UNCHANGED filtered
       ELSE /\ \E keepsNA \in BOOLEAN : filtered' = Select(data, Mask(data, ui[1], keepsNA))
            /\ pc' = "filtered"
            /\ steps' = Append(steps, "filter")
            /\ UNCHANGED errors
    /\ UNCHANGED <<csv, cache, session, data, ui, mapCenter, kpi>>

Map ==
    /\ pc = "filtered"
    /\ mapCenter' = <<ViewState(filtered)>>
    /\ pc' = "mapped"
    /\ steps' = Append(steps, "map")
    /\ UNCHANGED <<csv, cache, session, data, ui, filtered, kpi, errors>>

Metrics ==
    /\ pc = "mapped"
    /\ LET k12 == <<RestaurantsFound(filtered), AverageRating(filtered)>>
           e3 == MinutesRaises(filtered, "asapDeliveryTimeMinutes")
           e4 == MinutesRaises(filtered, "asapPickupMinutes")
       IN  IF e3 # "none"
           THEN /\ kpi' = k12
                /\ Raise("metrics", e3)
           ELSE IF e4 # "none"
           THEN /\ kpi' = Append(k12, Minutes(filtered, "asapDeliveryTimeMinutes"))
                /\ Raise("metrics", e4)
           ELSE /\ kpi' = k12 \o <<Minutes(filtered, "asapDeliveryTimeMinutes"),
                                   Minutes(filtered, "asapPickupMinutes")>>
                /\ pc' = "done"
                /\ steps' = Append(steps, "metrics")
                /\ UNCHANGED errors
    /\ UNCHANGED <<csv, cache, session, data, ui, filtered, mapCenter>>

\* A new run of the script: everything but the cache and the session is rebuilt.
NewRun ==
    /\ pc \in {"done", "error"}
    /\ pc' = "start"
    /\ steps' = <<>>
    /\ data' = <<>>
    /\ ui' = <<>>
    /\ filtered' = <<>>
    /\ mapCenter' = <<>>
    /\ kpi' = <<>>
    /\ errors' = <<>>
    /\ UNCHANGED <<csv, cache>>

Rerun == NewRun /\ UNCHANGED session

\* The user sets widget w to v: the session keeps v and the script runs again.
\* Moving a widget back to its default leaves the session as if never touched.
Interact(w, v) ==
    LET ses == [session EXCEPT ![w] = IF v = Defaults(ui[1])[w] THEN <<>> ELSE <<v>>]
    IN  /\ ui # <<>>
        /\ v # ui[1][w]
        /\ Touched(ses) <= MaxTouched
        /\ session' = ses
        /\ NewRun

SetQuery == \E q \in Queries : Interact("search_query", q)

SetPrice ==
    /\ ui # <<>>
    /\ \E S \in SUBSET ui[1].available_prices : Interact("selected_price", S)

SetRating == \E r \in RatingStops : Interact("max_rating", r)

SetDelTime ==
    /\ ui # <<>>
    /\ \E m \in 0..ui[1].max_del_time : Interact("selected_del_time", m)

SetPickTime ==
    /\ ui # <<>>
    /\ \E m \in 0..ui[1].max_pick_time : Interact("selected_pick_time", m)

SetPickup == \E r \in Requirements : Interact("selected_pickup", r)

SetDelivery == \E r \in Requirements : Interact("selected_delivery", r)

Next ==
    \/ Load
    \/ Sidebar
    \/ Filter
    \/ Map
    \/ Metrics
    \/ Rerun
    \/ SetQuery
    \/ SetPrice
    \/ SetRating
    \/ SetDelTime
    \/ SetPickTime
    \/ SetPickup
    \/ SetDelivery

Spec == Init /\ [][Next]_vars

(* ----------------------- vocabulary of the claims ----------------------- *)
Attempted(step) == step \in Range(steps)

\* The step named has run to its end in this run.
Completed(step) == Attempted(step) /\ ~(pc = "error" /\ steps[Len(steps)] = step)

Present(c) == c.k # "nan"

\* Two characters that differ at most in letter case.
SameLetter(a, b) == a = b \/ {a, b} = {"a", "A"} \/ {a, b} = {"b", "B"}

\* The query occurs in the name as a contiguous run of characters, letter
\* case aside.
OccursIn(query, text) ==
    \E i \in 0..(Len(text) - Len(query)) :
        \A j \in 1..Len(query) : SameLetter(query[j], text[i + j])

Blank(query) == \A j \in 1..Len(query) : query[j] = " "

\* Clauses 1 to 6 of the filter as the specification words them.
SixClauses(r, w) ==
    /\ Present(r.averageRating) /\ (r.averageRating.k = "num" => r.averageRating.v <= w.max_rating)
    /\ r.priceRange \in w.selected_price
    /\ Present(r.asapDeliveryTimeMinutes)
    /\ (r.asapDeliveryTimeMinutes.k = "num" =>
            r.asapDeliveryTimeMinutes.v <= Scale * w.selected_del_time)
    /\ Present(r.asapPickupMinutes)
    /\ (r.asapPickupMinutes.k = "num" => r.asapPickupMinutes.v <= Scale * w.selected_pick_time)
    /\ (w.selected_pickup # "All" => r.asapPickupAvailable = w.selected_pickup)
    /\ (w.selected_delivery # "All" => r.asapDeliveryAvailable = w.selected_delivery)

\* Clause 7 as the specification words it.
NameClause(r, w) ==
    ~Blank(w.search_query) => (r.name.k = "str" /\ OccursIn(w.search_query, r.name.s))

RowsWhere(rows, P(_)) == Select(rows, [i \in 1..Len(rows) |-> P(rows[i])])

(* -------------------------------- claims ------------------------------- *)

\* C1: the filtered subset, and the "Restaurants Found" count, is exactly the
\* rows of the table that satisfy all seven clauses at once, a row with an
\* absent rating, delivery minutes or pickup minutes failing its clause.
\* Refuted through clause 7 alone (C3, C4).
C1_SubsetIsSevenClauses ==
    Completed("filter") =>
        LET Seven(r) == SixClauses(r, ui[1]) /\ NameClause(r, ui[1])
        IN  /\ filtered = RowsWhere(data, Seven)
            /\ (kpi # <<>> => kpi[1].v = Len(RowsWhere(data, Seven)))

\* Clauses 1 to 6 are applied exactly as worded: with no name query the
\* subset and the count are the six-clause conjunction.
SixClausesExact ==
    (Completed("filter") /\ Blank(ui[1].search_query)) =>
        LET Six(r) == SixClauses(r, ui[1])
        IN  /\ filtered = RowsWhere(data, Six)
            /\ (kpi # <<>> => kpi[1] = [k |-> "count", v |-> Len(RowsWhere(data, Six))])

\* With a name query the subset lies within the six-clause conjunction.
SixClausesNecessary ==
    Completed("filter") =>
        \A i \in 1..Len(filtered) :
            filtered[i] \in Range(data) /\ SixClauses(filtered[i], ui[1])

\* Every widget holds its default.
Unconstrained(w) ==
    /\ w.search_query = <<>>
    /\ w.selected_price = w.available_prices
    /\ w.max_rating = 50
    /\ w.selected_del_time = w.max_del_time
    /\ w.selected_pick_time = w.max_pick_time
    /\ w.selected_pickup = "All"
    /\ w.selected_delivery = "All"

WholeMax(rows, col) ==
    LET vals == {rows[i][col].v : i \in {j \in 1..Len(rows) : rows[j][col].k = "num"}}
    IN  IF vals = {} THEN 0
        ELSE CHOOSE m \in 0..MaxOf(vals) :
                /\ \E v \in vals : m * Scale <= v
                /\ \A v \in vals : v < (m + 1) * Scale

C3_AbsentNameNeverMatches ==
    (Completed("filter") /\ ~Blank(ui[1].search_query)) =>
        \A i \in 1..Len(filtered) : filtered[i].name.k = "str"

\* C4: under a non-empty name query a row with a present name passes the name
\* clause exactly when the query occurs in the name, letter case aside; the
\* other six clauses decide the rest.
C4_NameClauseIsSubstring ==
    (Completed("filter") /\ ~Blank(ui[1].search_query)) =>
        \A i \in 1..Len(data) :
            (data[i].name.k = "str" /\ SixClauses(data[i], ui[1])) =>
                (data[i] \in Range(filtered) <=> OccursIn(ui[1].search_query, data[i].name.s))

\* C5: an empty price selection gives an empty subset whatever the other
\* criteria are.
C5_EmptySelectionEmptySubset ==
    (Completed("filter") /\ ui[1].selected_price = {}) => filtered = <<>>

\* The user has emptied a multiselect that offered categories, another widget
\* is off its default too, and the run is over.
C5_Witness ==
    /\ pc = "done" /\ data # <<>>
    /\ ui[1].available_prices # {} /\ ui[1].selected_price = {}
    /\ session.selected_price = <<{}>>
    /\ Touched(session) > 1
    /\ kpi[1].v = 0

\* C6: computing the three mean KPIs never fails.
C6_MetricsNeverFail ==
    ~(pc = "error" /\ steps[Len(steps)] = "metrics")

\* The part of C6 that holds: on an empty subset the three means are "0".
EmptySubsetNoData ==
    (Completed("metrics") /\ filtered = <<>>) =>
        kpi = <<[k |-> "count", v |-> 0], NoData, NoData, NoData>>

\* C7: a failure in the load, sidebar, filter or metrics step ends the run with
\* exactly one error message displayed, nothing displayed on a run without a
\* failure, and no step run twice.
C7_OneErrorMessage ==
    LET Failed == pc = "error" /\ Len(errors) = 1
        MinusInf(rows, col) == \E i \in 1..Len(rows) : rows[i][col].k = "-inf"
        OnlyMinusInf(rows, col) ==
            MinusInf(rows, col) /\ ~\E i \in 1..Len(rows) : rows[i][col].k = "num"
    IN  /\ pc \in {"start", "loaded", "widgets", "filtered", "mapped", "done", "error"}
        /\ Len(errors) <= 1
        /\ (errors # <<>> => pc = "error")
        /\ \A i, j \in 1..Len(steps) : steps[i] = steps[j] => i = j
        /\ ((Attempted("load") /\ ~csv.exists) => (Failed /\ steps = <<"load">>))
        /\ ((Attempted("sidebar") /\ (OnlyMinusInf(data, "asapDeliveryTimeMinutes")
                                        \/ OnlyMinusInf(data, "asapPickupMinutes")))
                => (Failed /\ steps = <<"load", "sidebar">>))
        /\ ((Attempted("filter") /\ ~Blank(ui[1].search_query)
                /\ "(" \in Range(ui[1].search_query))
                => (Failed /\ steps = <<"load", "sidebar", "filter">>))
        /\ ((Attempted("metrics") /\ (MinusInf(filtered, "asapDeliveryTimeMinutes")
                                        \/ MinusInf(filtered, "asapPickupMinutes")))
                => (Failed /\ steps = <<"load", "sidebar", "filter", "map", "metrics">>))

\* A run that failed in the filter step after an earlier run had succeeded.
C7_Witness ==
    /\ pc = "error" /\ steps = <<"load", "sidebar", "filter">>
    /\ errors = <<"re.error">>
    /\ cache # <<>>

\* C8: every row of the loaded table has both coordinates; the table is the
\* source rows that have both, in order, and a rating or minutes cell that is
\* no number is kept as an absent value.
C8_LoadedRowsHaveCoordinates ==
    LET keep == {i \in 1..Len(csv.rows) :
                    csv.rows[i].latitude.k = "num" /\ csv.rows[i].longitude.k = "num"}
        src(j) == csv.rows[Ascending(keep)[j]]
        Coerced(raw, cell) == IF raw.k = "text" THEN cell.k = "nan" ELSE cell = raw
        Good(table) ==
            /\ Len(table) = Cardinality(keep)
            /\ \A j \in 1..Len(table) :
                /\ table[j].latitude.k = "num" /\ table[j].longitude.k = "num"
                /\ table[j].latitude = src(j).latitude
                /\ table[j].longitude = src(j).longitude
                /\ table[j].name = src(j).name
                /\ Coerced(src(j).averageRating, table[j].averageRating)
                /\ Coerced(src(j).asapDeliveryTimeMinutes, table[j].asapDeliveryTimeMinutes)
                /\ Coerced(src(j).asapPickupMinutes, table[j].asapPickupMinutes)
    IN  /\ (Completed("load") => Good(data))
        /\ (cache # <<>> => Good(cache[1]))

\* A load that dropped a row and kept a row whose rating was no number.
C8_Witness ==
    /\ pc = "loaded"
    /\ Len(data) < Len(csv.rows)
    /\ \E i \in 1..Len(csv.rows) : csv.rows[i].averageRating.k = "text"
    /\ \E j \in 1..Len(data) : data[j].averageRating.k = "nan"

\* C9: the map centre is (29.76, -95.36) on an empty subset and the arithmetic
\* mean of the subset's latitudes and longitudes otherwise.
C9_MapCenter ==
    Completed("map") =>
        LET c == mapCenter[1]
            n == Len(filtered)
            lat == SumSeq([i \in 1..n |-> filtered[i].latitude.v])
            lon == SumSeq([i \in 1..n |-> filtered[i].longitude.v])
        IN  /\ c.latitude.k = "num" /\ c.longitude.k = "num"
            /\ c.latitude.d > 0 /\ c.longitude.d > 0
            /\ (n = 0 => /\ c.latitude.n = 2976 * c.latitude.d
                         /\ c.longitude.n = (0 - 9536) * c.longitude.d)
            /\ (n > 0 => /\ c.latitude.n * n = lat * c.latitude.d
                         /\ c.longitude.n * n = lon * c.longitude.d)

\* A centre taken over two rows, no whole number of hundredths.
C9_Witness ==
    /\ pc = "done" /\ Len(filtered) = 2
    /\ mapCenter[1].latitude.d = 2 /\ mapCenter[1].longitude.d = 2

\* A centre that fell back to the default on a table with rows.
C9_WitnessEmpty ==
    pc = "done" /\ filtered = <<>> /\ data # <<>>

\* C10: every row of the subset has a present rating, present delivery and
\* pickup minutes and one of the four price categories, so on a non-empty
\* subset each of the three means is taken over at least one value.
C10_SubsetRowsComplete ==
    Completed("filter") =>
        /\ \A i \in 1..Len(filtered) :
            /\ filtered[i].averageRating.k # "nan"
            /\ filtered[i].asapDeliveryTimeMinutes.k # "nan"
            /\ filtered[i].asapPickupMinutes.k # "nan"
            /\ filtered[i].priceRange \in {"Budget", "Mid-range", "Expensive", "Luxury"}
        /\ (Completed("metrics") /\ filtered # <<>> => kpi[2].k # "nan")

\* A non-empty subset of a table that holds a row with an absent field.
C10_Witness ==
    /\ pc = "done" /\ filtered # <<>>
    /\ \E i \in 1..Len(data) :
        \/ data[i].averageRating.k = "nan"
        \/ data[i].asapPickupMinutes.k = "nan"
        \/ data[i].priceRange = NA

====
